---------------------------- MODULE Spec2Model ----------------------------
(***************************************************************************)
(* State-machine model of the manual cell segmentation tool                *)
(* (src/cell_segmentation_tool.py): the label raster of the open image,    *)
(* the polygon paint with its overlap policy, erase, the undo stack, the   *)
(* container file codec (save_masks / load_image) and the four ways of     *)
(* switching image.  One action per Qt event handler.  The converter       *)
(* script (src/convert_masks_to_cellpose.py) works on the same container   *)
(* files; its main loop is one action per file.                            *)
(*                                                                         *)
(* Rasters are tuples of rows, rows are tuples of instance IDs; the pixel  *)
(* (x, y) of the code (0-based) is masks[y + 1][x + 1].  The value None    *)
(* of Python is the empty tuple.                                           *)
(***************************************************************************)
EXTENDS Integers, Sequences, FiniteSets, TLC

VARIABLES
    image_path,          \* ImageCanvas.image_path (None before the first load)
    masks,               \* ImageCanvas.masks
    next_mask_id,        \* ImageCanvas.next_mask_id
    current_polygon,     \* ImageCanvas.current_polygon
    is_drawing,          \* ImageCanvas.is_drawing
    is_cmd_pressed,      \* ImageCanvas.is_cmd_pressed (with last_mouse_pos set)
    undo_stack,          \* MainWindow.undo_stack
    array_ids,           \* which ndarray objects these are: array_ids[1] is the
                         \* array self.masks is bound to, array_ids[i + 1] the
                         \* array undo_stack[i]; equal numbers, one object
    tiff_files,          \* MainWindow.tiff_files
    current_file_index,  \* MainWindow.current_file_index
    disk,                \* the container files, by container path
    last_event,          \* the handler branch that ran last, and its position
    last_save,           \* what save_masks did in the last handler (its console line)
    prev_masks,          \* history: masks as the last mouse release found it
                         \* (None after any other handler)
    \* src/convert_masks_to_cellpose.py, main():
    dry_run,             \* args.dry_run
    backup,              \* args.backup
    images,              \* the image files that exist in the directory
    mask_files,          \* the list find_mask_files returned
    file_pos,            \* how many entries of mask_files the loop has processed
    stats,               \* the per-status counters
    result,              \* what the last convert_file returned (status, num_masks)
    backups,             \* the '.backup' files, by container path
    pc                   \* position of main(): "idle", "start", "loop", "done"

migrator_vars == <<dry_run, backup, images, mask_files, file_pos, stats, result,
                   backups, pc>>

vars == <<image_path, masks, next_mask_id, current_polygon, is_drawing,
          is_cmd_pressed, undo_stack, array_ids, tiff_files, current_file_index, disk,
          last_event, last_save, prev_masks, migrator_vars>>

None == <<>>

\* ------------------------------------------------------------------ bounds
\* IDs handed out by paint stay within 1..MaxId.
MaxId == 2
\* Paint and erase are taken only while the undo stack is shorter than this.
MaxUndoDepth == 1
\* A drawing gesture collects at most this many points.
MaxPolyLen == 3
\* In the long editing session (SpecLedger) paint hands out the IDs 1..MaxLedgerId;
\* every ID is pushed twice (by its paint and by its erase), so 26 IDs fill the
\* 50 entries of the undo stack and overflow it.
MaxLedgerId == 26
\* In the paint-only session (SpecPaint) at most this many polygons are painted.
MaxPaints == 2
\* In the session with undo (SpecSnapshots) paint and erase are taken only while
\* the undo stack is shorter than MaxSnapshots, and paint hands out the IDs
\* 1..MaxSnapshotId.
MaxSnapshots == 2
MaxSnapshotId == 2

\* ---------------------------------------------------------------- constants
max_undo_steps == 50
UINT16_RANGE == 65536

\* ------------------------------------------------------------- environment
\* The image files of the working directory, as <<stem, extension>>, in the
\* order sorted() gives them.
DirListing == << <<"a", ".tif">>, <<"b", ".tif">> >>

Files == {DirListing[i] : i \in 1..Len(DirListing)}

\* A second directory, whose two images differ in the extension only.
OtherListing == << <<"c", ".tif">>, <<"c", ".tiff">> >>

PathFiles == {OtherListing[i] : i \in 1..Len(OtherListing)}

\* A third directory: an image whose stem contains '_seg', and its neighbour.
SegListing == << <<"d", ".tif">>, <<"d_seg", ".tif">> >>

SegFiles == {SegListing[i] : i \in 1..Len(SegListing)}

\* build_file_list: the sorted listing of the directory of image f.
listdir(f) == IF f \in PathFiles THEN OtherListing ELSE DirListing

\* <<height, width>> of each image, as io.imread returns it.
ImageShape(f) == IF f = <<"a", ".tif">> THEN <<1, 2>> ELSE <<2, 1>>

\* Image-space points the pointer visits (screen_to_image_coords of the event).
Points == {<<0, 0>>, <<3, 0>>}

\* The points of the paint-only session: two rows, so that two polygons that do
\* not overlap can be drawn on the 2 x 1 image.
PaintPoints == {<<0, 0>>, <<3, 0>>, <<0, 1>>, <<3, 1>>}

\* Positions of a Cmd/Ctrl click release.
ClickPoints == {<<0, 0>>, <<1, 0>>, <<0, 1>>, <<0 - 1, 0>>}

\* ----------------------------------------------------------------- rasters
Shape(r) == IF r = None THEN <<0, 0>> ELSE <<Len(r), Len(r[1])>>

Zeros(shape) == [y \in 1..shape[1] |-> [x \in 1..shape[2] |-> 0]]

\* Pixel coordinates <<x, y>> of a raster, 0-based as in the code.
Pixels(r) == {<<x, y>> : x \in 0..(Shape(r)[2] - 1), y \in 0..(Shape(r)[1] - 1)}

At(r, p) == r[p[2] + 1][p[1] + 1]

\* np.unique(masks)
unique(r) == {At(r, p) : p \in Pixels(r)}

\* masks.max()
max(r) == CHOOSE m \in unique(r) : \A v \in unique(r) : v <= m

\* masks.astype(np.uint16)
astype_uint16(r) == [y \in 1..Len(r) |-> [x \in 1..Len(r[y]) |-> r[y][x] % UINT16_RANGE]]


\* ------------------------------------------------------------ cv2.fillPoly
Cross(a, b, p) == (b[1] - a[1]) * (p[2] - a[2]) - (b[2] - a[2]) * (p[1] - a[1])

Between(v, u, w) == (u <= v /\ v <= w) \/ (w <= v /\ v <= u)

\* p lies on the closed segment from a to b.
OnSegment(p, a, b) ==
    /\ Cross(a, b, p) = 0
    /\ Between(p[1], a[1], b[1])
    /\ Between(p[2], a[2], b[2])

\* The horizontal ray from p towards +x crosses the edge from a to b.
RayCrosses(p, a, b) ==
    /\ (a[2] > p[2]) # (b[2] > p[2])
    /\ IF b[2] > a[2]
       THEN (p[1] - a[1]) * (b[2] - a[2]) < (p[2] - a[2]) * (b[1] - a[1])
       ELSE (p[1] - a[1]) * (b[2] - a[2]) > (p[2] - a[2]) * (b[1] - a[1])

\* The vertex after the i-th one; the last edge closes the polygon.
NextVertex(poly, i) == poly[(i % Len(poly)) + 1]

\* cv2.fillPoly(new_mask, [polygon_array], 1): the pixels of a height x width
\* grid on the boundary of the closed polygon or inside it (even-odd rule).
fillPoly(poly, shape) ==
    {p \in {<<x, y>> : x \in 0..(shape[2] - 1), y \in 0..(shape[1] - 1)} :
        \/ \E i \in 1..Len(poly) : OnSegment(p, poly[i], NextVertex(poly, i))
        \/ Cardinality({i \in 1..Len(poly) :
               RayCrosses(p, poly[i], NextVertex(poly, i))}) % 2 = 1}

\* ------------------------------------------------------------------ colours
\* hue = (mask_id * 137) % 180
hue(mask_id) == (mask_id * 137) % 180

\* cv2.cvtColor(np.uint8([[[h, 255, 255]]]), cv2.COLOR_HSV2RGB)[0, 0] for a hue
\* h in 0..179: six sectors of 30 hue steps; inside a sector one channel rises
\* from 0 to 255 (t, rounded to the nearest integer) or falls (q = 255 - t).
hsv_to_rgb(h) ==
    LET t == (17 * (h % 30) + 1) \div 2
        q == 255 - t
    IN  CASE h \div 30 = 0 -> <<255, t, 0>>
          [] h \div 30 = 1 -> <<q, 255, 0>>
          [] h \div 30 = 2 -> <<0, 255, t>>
          [] h \div 30 = 3 -> <<0, q, 255>>
          [] h \div 30 = 4 -> <<t, 0, 255>>
          [] OTHER -> <<255, 0, q>>

\* unique_ids = np.unique(masks); unique_ids = unique_ids[unique_ids > 0]
unique_ids(r) == {v \in unique(r) : v > 0}

\* The i-th smallest element of a finite set of integers (np.unique sorts).
ith(ids, i) == CHOOSE v \in ids : Cardinality({u \in ids : u < v}) = i - 1

\* Mutant of _generate_colors: the colours are listed by descending ID.
_generate_colors_descending(r) ==
    [i \in 1..Cardinality(unique_ids(r)) |->
        hsv_to_rgb(hue(ith(unique_ids(r), Cardinality(unique_ids(r)) + 1 - i)))]

\* ImageCanvas._generate_colors
_generate_colors(r) ==
    IF unique_ids(r) = {} THEN << <<0, 0, 0>> >>
    ELSE [i \in 1..Cardinality(unique_ids(r)) |-> hsv_to_rgb(hue(ith(unique_ids(r), i)))]

\* ImageCanvas._create_mask_overlay: the RGBA value of every pixel.
_create_mask_overlay(r) ==
    [p \in Pixels(r) |->
        IF At(r, p) > 0 THEN hsv_to_rgb(hue(At(r, p))) \o <<255>> ELSE <<0, 0, 0, 0>>]

\* -------------------------------------------------------- container files
\* A container file: kind "none" (no file), "corrupt" (np.load raises),
\* "array" (a bare 2-D ndarray, the simple shape), "array1d" (a bare 1-D
\* ndarray), "array3d" (a bare (H, W, 3) ndarray; `masks` is its channel 0) or
\* "dict" (a 0-d object array holding a dictionary with the keys `keys`).
NoFile == [kind |-> "none", keys |-> {}, masks |-> None, colors |-> <<>>]

CorruptFile == [kind |-> "corrupt", keys |-> {}, masks |-> None, colors |-> <<>>]

SimpleArray(r) == [kind |-> "array", keys |-> {}, masks |-> r, colors |-> <<>>]

Array1D == [kind |-> "array1d", keys |-> {}, masks |-> None, colors |-> <<>>]

Array3D(r) == [kind |-> "array3d", keys |-> {}, masks |-> r, colors |-> <<>>]

PartialDict(r) == [kind |-> "dict", keys |-> {"masks"}, masks |-> r, colors |-> <<>>]

\* A dictionary without the key 'masks'.
DictNoMasks == [kind |-> "dict", keys |-> {"filename"}, masks |-> None, colors |-> <<>>]

CompleteKeys == {"masks", "outlines", "colors"}

\* The dictionary save_masks builds, wrapped by np.array(..., dtype=object).
cellpose_data(r) ==
    [kind |-> "dict", keys |-> CompleteKeys, masks |-> astype_uint16(r),
     colors |-> _generate_colors(r)]

\* ImageCanvas._get_mask_path: parent / (stem + "_seg.npy")
_get_mask_path(f) == <<f[1], "_seg.npy">>

MaskPaths == {_get_mask_path(f) : f \in Files \cup PathFiles \cup SegFiles}

\* Container files that may lie in the directory when the session starts.
LegacyContainers(path) ==
    IF path[1] = "a"
    THEN {NoFile, SimpleArray(<< <<0, 1>> >>)}
    ELSE IF path[1] = "b"
    THEN {NoFile, CorruptFile, PartialDict(<< <<1>>, <<0>> >>)}
    ELSE {NoFile}

\* Container files that may lie in the directory when a session of SpecLoad
\* starts: besides the shapes above, for a.tif (1 x 2) a raster without
\* background, rasters of the wrong size, arrays of one and of three
\* dimensions and a dictionary without masks.
LoadContainers(path) ==
    IF path[1] = "a"
    THEN {NoFile, CorruptFile, Array1D, DictNoMasks,
          SimpleArray(<< <<0, 1>> >>), SimpleArray(<< <<1, 1>> >>),
          SimpleArray(<< <<1>>, <<0>> >>), cellpose_data(<< <<1>>, <<0>> >>),
          Array3D(<< <<0, 1>> >>)}
    ELSE IF path[1] = "b"
    THEN {NoFile, CorruptFile, PartialDict(<< <<1>>, <<0>> >>)}
    ELSE {NoFile}

\* os.path.exists(mask_path)
exists(d, path) == d[path].kind # "none"

\* num_masks = len(np.unique(self.masks)) - 1
num_masks(r) == Cardinality(unique(r)) - 1

\* MainWindow.update_status: mask_count = len(np.unique(self.canvas.masks)) - 1
mask_count(r) == Cardinality(unique(r)) - 1

\* save_masks: the directory after the call.
save_masks(d, f, r) ==
    IF f = None \/ r = None THEN d
    ELSE IF num_masks(r) > 0
         THEN [d EXCEPT ![_get_mask_path(f)] = cellpose_data(r)]
         ELSE [d EXCEPT ![_get_mask_path(f)] = NoFile]

\* save_masks: the line it prints.
save_log(d, f, r) ==
    IF f = None \/ r = None THEN "none"
    ELSE IF num_masks(r) > 0 THEN "saved"
    ELSE IF exists(d, _get_mask_path(f)) THEN "deleted"
    ELSE "nothing"

\* load_image, lines 101-110: loaded_masks after the format detection
\* (None when it is not an ndarray with ndim >= 2, or np.load raised).
loaded_masks(c) ==
    IF c.kind \in {"array", "array3d"} THEN c.masks
    ELSE IF c.kind = "dict" /\ "masks" \in c.keys THEN c.masks
    ELSE None

\* load_image, lines 94-123: self.masks after the load.
load_masks(d, f) ==
    LET c == d[_get_mask_path(f)]
        blank == Zeros(ImageShape(f))
    IN  IF exists(d, _get_mask_path(f))
           /\ loaded_masks(c) # None
           /\ Shape(loaded_masks(c)) = Shape(blank)
        THEN loaded_masks(c)
        ELSE blank

\* load_image, lines 116-118: self.next_mask_id after the load.
load_next_mask_id(d, f, old) ==
    IF max(load_masks(d, f)) > 0 THEN max(load_masks(d, f)) + 1 ELSE old

\* MainWindow.build_file_list: index of the file in the sorted listing, or -1.
file_index(f) ==
    IF \E i \in 1..Len(listdir(f)) : listdir(f)[i] = f
    THEN (CHOOSE i \in 1..Len(listdir(f)) : listdir(f)[i] = f) - 1
    ELSE 0 - 1

\* ------------------------------------- src/convert_masks_to_cellpose.py
\* is_cellpose_format(data)
is_cellpose_format(c) == c.kind = "dict" /\ CompleteKeys \subseteq c.keys

\* mask_id * 137 in the integer type of the masks array (mask_id is a numpy
\* scalar of that type and 137 a Python int, so NumPy 2 keeps the type): a
\* uint16 product wraps at 2^16, an int32 product does not wrap for the IDs of
\* this model.
times_137(mask_id, dtype) ==
    IF dtype = "uint16" THEN (mask_id * 137) % UINT16_RANGE ELSE mask_id * 137

\* generate_colors(masks)
generate_colors(r, dtype) ==
    IF unique_ids(r) = {} THEN << <<0, 0, 0>> >>
    ELSE [i \in 1..Cardinality(unique_ids(r)) |->
             hsv_to_rgb(times_137(ith(unique_ids(r), i), dtype) % 180)]

\* The integer type of the masks a container holds: dictionaries store uint16
\* (line 76 and save_masks line 173), bare arrays the int32 of the early tool.
masks_dtype(c) == IF c.kind = "dict" THEN "uint16" ELSE "int32"

\* Mutant of convert_to_cellpose_format: the dictionary is written without its
\* colors.
convert_to_cellpose_format_without_colors(c) ==
    [kind |-> "dict", keys |-> {"masks", "outlines"}, masks |-> astype_uint16(c.masks),
     colors |-> <<>>]

\* convert_to_cellpose_format(masks_array, image_path) for the masks of container c
convert_to_cellpose_format(c) ==
    [kind |-> "dict", keys |-> CompleteKeys, masks |-> astype_uint16(c.masks),
     colors |-> generate_colors(c.masks, masks_dtype(c))]

\* mask_path.stem.replace('_seg', '') for the container <<stem, "_seg.npy">> of
\* an image stem: the suffix goes, and so does every other '_seg' in the stem.
base_name(stem) == IF stem = "d_seg" THEN "d" ELSE stem

TifExtensions == <<".tif", ".tiff", ".TIF", ".TIFF">>

\* get_corresponding_tif(mask_path): the first candidate that exists, or None.
get_corresponding_tif(path, imgs) ==
    IF \E i \in 1..Len(TifExtensions) : <<base_name(path[1]), TifExtensions[i]>> \in imgs
    THEN <<base_name(path[1]),
           TifExtensions[CHOOSE i \in 1..Len(TifExtensions) :
               /\ <<base_name(path[1]), TifExtensions[i]>> \in imgs
               /\ \A j \in 1..(i - 1) : <<base_name(path[1]), TifExtensions[j]>> \notin imgs]>>
    ELSE None

\* convert_file takes one of its two conversion branches (lines 140-160 for a
\* dictionary with masks that is not complete, lines 163-184 for an array of
\* two or more dimensions).
has_masks(c) ==
    \/ c.kind = "dict" /\ "masks" \in c.keys /\ ~is_cellpose_format(c)
    \/ c.kind \in {"array", "array3d"}

\* convert_to_cellpose_format raises: generate_outlines passes a three-channel
\* array to cv2.findContours.
convert_raises(c) == c.kind = "array3d"

\* Mutant of convert_backs_up: the copy is made whatever the --backup flag.
convert_backs_up_without_flag(c, tif, dry, bk) == has_masks(c) /\ tif # None /\ ~dry

\* convert_file: the copy to mask_path + '.backup' is made (lines 152-154, 174-176).
convert_backs_up(c, tif, dry, bk) == has_masks(c) /\ tif # None /\ ~dry /\ bk

\* convert_file: np.save(mask_path, cellpose_data) is reached (lines 158, 182).
convert_writes(c, tif, dry) == has_masks(c) /\ tif # None /\ ~dry /\ ~convert_raises(c)

\* convert_file: the status it returns.
convert_status(c, tif, dry) ==
    IF c.kind = "corrupt" THEN "error"
    ELSE IF is_cellpose_format(c) THEN "already_cellpose"
    ELSE IF has_masks(c)
         THEN IF tif = None THEN "no_tif"
              ELSE IF ~dry /\ convert_raises(c) THEN "error"
              ELSE "converted"
    ELSE "unknown_format"

\* convert_file: num_masks = len(np.unique(masks_array)) - 1 in the info text
\* of a conversion, 0 otherwise.
convert_num_masks(c, tif, dry) ==
    IF convert_status(c, tif, dry) = "converted" THEN Cardinality(unique(c.masks)) - 1 ELSE 0

no_stats ==
    [converted |-> 0, already_cellpose |-> 0, no_tif |-> 0, unknown_format |-> 0,
     error |-> 0]

\* Every container path, in the order sorted() gives.
AllMaskPaths ==
    << <<"a", "_seg.npy">>, <<"b", "_seg.npy">>, <<"c", "_seg.npy">>,
       <<"d", "_seg.npy">>, <<"d_seg", "_seg.npy">> >>

\* Mutant of count_status: an error is not counted.
count_status_without_errors(st, status) ==
    IF status = "error" THEN st ELSE [st EXCEPT ![status] = @ + 1]

\* main(), line 249: stats[status] += 1
count_status(st, status) == [st EXCEPT ![status] = @ + 1]

\* find_mask_files(directory)
find_mask_files(d) == SelectSeq(AllMaskPaths, LAMBDA path : exists(d, path))

\* --------------------------------------------------------------- undo stack
\* Mutant of add_to_undo_stack: at the cap the newest snapshot is dropped, not
\* the oldest.
add_to_undo_stack_drop_newest(stack, r) ==
    IF r = None THEN stack
    ELSE IF Len(stack) >= max_undo_steps THEN stack ELSE Append(stack, r)

\* MainWindow.add_to_undo_stack
add_to_undo_stack(stack, r) ==
    IF r = None THEN stack
    ELSE LET s == Append(stack, r)
         IN  IF Len(s) > max_undo_steps THEN Tail(s) ELSE s

\* ------------------------------------------------------- array objects
\* The objects of ids numbered in the order of their first occurrence (the
\* numbers carry no meaning but equality).
RECURSIVE renumber(_, _, _)
renumber(ids, i, seen) ==
    IF i > Len(ids) THEN <<>>
    ELSE LET s == IF \E k \in 1..Len(seen) : seen[k] = ids[i]
                  THEN seen ELSE Append(seen, ids[i])
         IN  <<(CHOOSE k \in 1..Len(s) : s[k] = ids[i]) - 1>> \o renumber(ids, i + 1, s)

\* An object that is none of ids.
new_array(ids) == Len(ids)

\* Mutant of add_to_undo_ids: the array itself is appended, not a copy of it.
add_to_undo_ids_without_copy(ids, r) ==
    IF r = None THEN ids
    ELSE LET s == Append(Tail(ids), ids[1])
         IN  renumber(<<ids[1]>> \o (IF Len(s) > max_undo_steps THEN Tail(s) ELSE s),
                      1, <<>>)

\* MainWindow.add_to_undo_stack, line 759: self.canvas.masks.copy() is a new
\* array; line 763 drops the oldest one.
add_to_undo_ids(ids, r) ==
    IF r = None THEN ids
    ELSE LET s == Append(Tail(ids), new_array(ids))
         IN  renumber(<<ids[1]>> \o (IF Len(s) > max_undo_steps THEN Tail(s) ELSE s),
                      1, <<>>)

\* self.masks[...] = value (lines 435, 499) writes into the array self.masks is
\* bound to: every entry of the stack that is this very array shows new_r.
write_in_place(stack, ids, new_r) ==
    [i \in 1..Len(stack) |-> IF ids[i + 1] = ids[1] THEN new_r ELSE stack[i]]

\* load_image, lines 95 and 115: self.masks is bound to a new array; the stack
\* is emptied or kept by the caller.
load_array_ids(ids, clears) ==
    renumber(<<new_array(ids)>> \o (IF clears THEN <<>> ELSE Tail(ids)), 1, <<>>)

\* MainWindow.undo, line 769: self.canvas.masks is bound to the popped array.
undo_array_ids(ids) ==
    IF Len(ids) > 1
    THEN renumber(<<ids[Len(ids)]>> \o SubSeq(ids, 2, Len(ids) - 1), 1, <<>>)
    ELSE ids

\* ------------------------------------------------------------------- paint
\* Mutant of new_mask: the fill overwrites the pixels that are already labeled.
new_mask_overwrite(poly, r) == fillPoly(poly, Shape(r))

\* _create_mask_from_polygon, lines 417-430: the fill minus the labeled pixels.
new_mask(poly, r) == {p \in fillPoly(poly, Shape(r)) : At(r, p) = 0}

\* self.masks[new_mask == 1] = self.next_mask_id
assign(r, region, id) ==
    [y \in 1..Len(r) |-> [x \in 1..Len(r[y]) |->
        IF <<x - 1, y - 1>> \in region THEN id ELSE r[y][x]]]

\* Mutant of remove_mask: the erase clears every instance, not only mask_id.
remove_mask_all(r, id) == Zeros(Shape(r))

\* self.masks[self.masks == mask_id] = 0
remove_mask(r, id) ==
    [y \in 1..Len(r) |-> [x \in 1..Len(r[y]) |-> IF r[y][x] = id THEN 0 ELSE r[y][x]]]

\* _create_mask_from_polygon: self.masks after the call.
paint_masks(poly, r, id) ==
    IF Len(poly) < 3 THEN r
    ELSE IF new_mask(poly, r) # {} THEN assign(r, new_mask(poly, r), id)
    ELSE r

\* Mutant of paint_next_mask_id: the ID is consumed even when nothing is painted.
paint_next_mask_id_always(poly, r, id) == IF Len(poly) >= 3 THEN id + 1 ELSE id

\* _create_mask_from_polygon: self.next_mask_id after the call.
paint_next_mask_id(poly, r, id) ==
    IF Len(poly) >= 3 /\ new_mask(poly, r) # {} THEN id + 1 ELSE id

\* _create_mask_from_polygon: the undo stack after the call; the copy is taken
\* at line 439, after line 435 has written the new instance.
paint_undo_stack(poly, r, id, stack) ==
    IF Len(poly) >= 3 /\ new_mask(poly, r) # {}
    THEN add_to_undo_stack(stack, paint_masks(poly, r, id))
    ELSE stack

\* _create_mask_from_polygon: the array objects after the call.
paint_array_ids(poly, r, ids) ==
    IF Len(poly) >= 3 /\ new_mask(poly, r) # {}
    THEN add_to_undo_ids(ids, r)
    ELSE ids

\* Mutant of paint_saves: the gesture saves whatever its number of points.
paint_saves_always(poly) == TRUE

\* mouseReleaseEvent, lines 404-407: save_masks runs whenever the gesture has
\* at least three points.
paint_saves(poly) == Len(poly) >= 3

\* _delete_mask_at: the click is inside the raster and on an instance.
delete_hits(r, pos) == r # None /\ pos \in Pixels(r) /\ At(r, pos) > 0

\* ------------------------------------------------------------------ actions
\* The converter script is not running.
migrator_idle ==
    /\ dry_run = FALSE
    /\ backup = FALSE
    /\ images = Files \cup PathFiles
    /\ mask_files = <<>>
    /\ file_pos = 0
    /\ stats = no_stats
    /\ result = [status |-> "none", num_masks |-> 0]
    /\ backups = [path \in MaskPaths |-> NoFile]
    /\ pc = "idle"

Init ==
    /\ image_path = None
    /\ masks = None
    /\ next_mask_id = 1
    /\ current_polygon = <<>>
    /\ is_drawing = FALSE
    /\ is_cmd_pressed = FALSE
    /\ undo_stack = <<>>
    /\ array_ids = <<0>>
    /\ tiff_files = <<>>
    /\ current_file_index = 0 - 1
    /\ disk \in [MaskPaths -> UNION {LegacyContainers(path) : path \in MaskPaths}]
    /\ \A path \in MaskPaths : disk[path] \in LegacyContainers(path)
    /\ last_event = [op |-> "init", pos |-> None]
    /\ last_save = "none"
    /\ prev_masks = None
    /\ migrator_idle

\* ImageCanvas.load_image(filepath), for a readable image file.
load_image(f, d) ==
    /\ image_path' = f
    /\ tiff_files' = listdir(f)
    /\ current_file_index' = file_index(f)
    /\ masks' = load_masks(d, f)
    /\ next_mask_id' = load_next_mask_id(d, f, next_mask_id)
    /\ current_polygon' = <<>>
    /\ is_drawing' = FALSE

\* "Save current masks before switching images", then load_image; the four
\* callers differ in `clears` (whether they reset the undo stack afterwards).
switch_image(f, name, clears) ==
    /\ disk' = save_masks(disk, image_path, masks)
    /\ last_save' = save_log(disk, image_path, masks)
    /\ load_image(f, save_masks(disk, image_path, masks))
    /\ undo_stack' = IF clears THEN <<>> ELSE undo_stack
    /\ array_ids' = load_array_ids(array_ids, clears)
    /\ last_event' = [op |-> name, pos |-> None]
    /\ prev_masks' = None
    /\ UNCHANGED <<is_cmd_pressed, migrator_vars>>

\* MainWindow.open_image_dialog with the file the dialog returned
\* (`if filepath:`); the undo stack is cleared at line 721.
open_image_dialog(f) ==
    /\ f # None
    /\ switch_image(f, "open", TRUE)

\* filepath.lower().endswith(('.tif', '.tiff'))
is_tiff(f) == f[2] \in {".tif", ".tiff", ".TIF", ".TIFF"}

\* ImageCanvas.dropEvent with a dropped file; the undo stack is not touched.
dropEvent(f) ==
    /\ is_tiff(f)
    /\ switch_image(f, "drop", FALSE)

\* MainWindow.load_previous_file
load_previous_file ==
    /\ Len(tiff_files) # 0
    /\ current_file_index > 0
    /\ switch_image(tiff_files[(current_file_index - 1) + 1], "previous", TRUE)

\* MainWindow.load_next_file
load_next_file ==
    /\ Len(tiff_files) # 0
    /\ current_file_index < Len(tiff_files) - 1
    /\ switch_image(tiff_files[(current_file_index + 1) + 1], "next", TRUE)

\* mousePressEvent, left button with Cmd/Ctrl held: enter delete mode.
mousePressEvent_delete ==
    /\ image_path # None
    /\ ~is_drawing /\ ~is_cmd_pressed
    /\ is_cmd_pressed' = TRUE
    /\ last_event' = [op |-> "press_delete", pos |-> None]
    /\ last_save' = "none"
    /\ prev_masks' = None
    /\ UNCHANGED <<image_path, masks, next_mask_id, current_polygon, is_drawing,
                   undo_stack, array_ids, tiff_files, current_file_index, disk,
                   migrator_vars>>

\* mousePressEvent, plain left button: start a polygon at pt.
mousePressEvent_draw(pt) ==
    /\ image_path # None
    /\ ~is_drawing /\ ~is_cmd_pressed
    /\ is_drawing' = TRUE
    /\ current_polygon' = <<pt>>
    /\ last_event' = [op |-> "press_draw", pos |-> None]
    /\ last_save' = "none"
    /\ prev_masks' = None
    /\ UNCHANGED <<image_path, masks, next_mask_id, is_cmd_pressed,
                   undo_stack, array_ids, tiff_files, current_file_index, disk,
                   migrator_vars>>

\* (img_x - last_x)**2 + (img_y - last_y)**2 > 2**2
far_enough(poly, pt) ==
    \/ Len(poly) = 0
    \/ (pt[1] - poly[Len(poly)][1]) * (pt[1] - poly[Len(poly)][1])
         + (pt[2] - poly[Len(poly)][2]) * (pt[2] - poly[Len(poly)][2]) > 4

\* mouseMoveEvent while drawing: append the point if it is far enough.
mouseMoveEvent(pt) ==
    /\ image_path # None
    /\ ~is_cmd_pressed
    /\ is_drawing
    /\ far_enough(current_polygon, pt)
    /\ Len(current_polygon) < MaxPolyLen
    /\ current_polygon' = Append(current_polygon, pt)
    /\ last_event' = [op |-> "move", pos |-> None]
    /\ last_save' = "none"
    /\ prev_masks' = None
    /\ UNCHANGED <<image_path, masks, next_mask_id, is_drawing, is_cmd_pressed,
                   undo_stack, array_ids, tiff_files, current_file_index, disk,
                   migrator_vars>>

\* mouseReleaseEvent in delete mode: _delete_mask_at(release position).
release_delete(pos) ==
    /\ image_path # None
    /\ is_cmd_pressed
    /\ is_cmd_pressed' = FALSE
    /\ IF delete_hits(masks, pos)
       THEN /\ undo_stack' = write_in_place(add_to_undo_stack(undo_stack, masks),
                                            add_to_undo_ids(array_ids, masks),
                                            remove_mask(masks, At(masks, pos)))
            /\ array_ids' = add_to_undo_ids(array_ids, masks)
            /\ masks' = remove_mask(masks, At(masks, pos))
            /\ disk' = save_masks(disk, image_path, remove_mask(masks, At(masks, pos)))
            /\ last_save' = save_log(disk, image_path, remove_mask(masks, At(masks, pos)))
            /\ last_event' = [op |-> "erase", pos |-> pos]
       ELSE /\ UNCHANGED <<undo_stack, array_ids, masks, disk>>
            /\ last_save' = "none"
            /\ last_event' = [op |-> "erase_miss", pos |-> pos]
    /\ prev_masks' = masks
    /\ UNCHANGED <<image_path, next_mask_id, current_polygon, is_drawing,
                   tiff_files, current_file_index, migrator_vars>>

\* mouseReleaseEvent while drawing: finalize the polygon.
release_draw ==
    /\ image_path # None
    /\ ~is_cmd_pressed
    /\ is_drawing
    /\ is_drawing' = FALSE
    /\ masks' = paint_masks(current_polygon, masks, next_mask_id)
    /\ next_mask_id' = paint_next_mask_id(current_polygon, masks, next_mask_id)
    /\ undo_stack' = paint_undo_stack(current_polygon, masks, next_mask_id,
                          write_in_place(undo_stack, array_ids,
                              paint_masks(current_polygon, masks, next_mask_id)))
    /\ array_ids' = paint_array_ids(current_polygon, masks, array_ids)
    /\ IF paint_saves(current_polygon)
       THEN /\ disk' = save_masks(disk, image_path,
                                  paint_masks(current_polygon, masks, next_mask_id))
            /\ last_save' = save_log(disk, image_path,
                                     paint_masks(current_polygon, masks, next_mask_id))
       ELSE /\ disk' = disk
            /\ last_save' = "none"
    /\ last_event' =
         [op |-> IF Len(current_polygon) < 3 THEN "too_few_points"
                 ELSE IF new_mask(current_polygon, masks) # {} THEN "paint"
                 ELSE "paint_empty",
          pos |-> None]
    /\ current_polygon' = <<>>
    /\ prev_masks' = masks
    /\ UNCHANGED <<image_path, is_cmd_pressed, tiff_files, current_file_index,
                   migrator_vars>>

\* release_delete within the bounds of the exploration.
mouseReleaseEvent_delete(pos) ==
    /\ delete_hits(masks, pos) => Len(undo_stack) < MaxUndoDepth
    /\ release_delete(pos)

\* release_draw within the bounds of the exploration.
mouseReleaseEvent_draw ==
    /\ paint_next_mask_id(current_polygon, masks, next_mask_id) # next_mask_id
         => (next_mask_id <= MaxId /\ Len(undo_stack) < MaxUndoDepth)
    /\ release_draw

\* Mutant of undo_saves: undo saves even when there was nothing to pop.
undo_saves_always(stack) == TRUE

\* MainWindow.undo, line 767: the body (pop, save_masks) runs only when the
\* stack is not empty.
undo_saves(stack) == Len(stack) > 0

\* MainWindow.undo, line 769: self.canvas.masks after the call.
undo_masks(stack, r) == IF Len(stack) > 0 THEN stack[Len(stack)] ELSE r

\* MainWindow.undo, line 769: the stack after undo_stack.pop().
undo_pop(stack) == IF Len(stack) > 0 THEN SubSeq(stack, 1, Len(stack) - 1) ELSE stack

\* MainWindow.undo
undo ==
    /\ masks' = undo_masks(undo_stack, masks)
    /\ undo_stack' = undo_pop(undo_stack)
    /\ array_ids' = undo_array_ids(array_ids)
    /\ IF undo_saves(undo_stack)
       THEN /\ disk' = save_masks(disk, image_path, undo_masks(undo_stack, masks))
            /\ last_save' = save_log(disk, image_path, undo_masks(undo_stack, masks))
       ELSE /\ disk' = disk
            /\ last_save' = "none"
    /\ last_event' = [op |-> IF Len(undo_stack) > 0 THEN "undo" ELSE "undo_empty",
                      pos |-> None]
    /\ prev_masks' = None
    /\ UNCHANGED <<image_path, next_mask_id, current_polygon, is_drawing,
                   is_cmd_pressed, tiff_files, current_file_index, migrator_vars>>

Next ==
    \/ \E f \in Files : open_image_dialog(f)
    \/ \E f \in Files : dropEvent(f)
    \/ load_previous_file
    \/ load_next_file
    \/ mousePressEvent_delete
    \/ \E pt \in Points : mousePressEvent_draw(pt)
    \/ \E pt \in Points : mouseMoveEvent(pt)
    \/ \E pos \in ClickPoints : mouseReleaseEvent_delete(pos)
    \/ mouseReleaseEvent_draw
    \/ undo

Spec == Init /\ [][Next]_vars

\* ------------------------------------------- a long editing session (ledger)
\* A session in a directory without container files: one image is opened and
\* instances are painted and erased, without undo and without leaving the image.
InitLedger ==
    /\ Init
    /\ \A path \in MaskPaths : disk[path] = NoFile

ledger_open(f) ==
    /\ image_path = None
    /\ open_image_dialog(f)

ledger_release_delete(pos) ==
    /\ next_mask_id <= MaxLedgerId + 1
    /\ release_delete(pos)

ledger_release_draw ==
    /\ paint_next_mask_id(current_polygon, masks, next_mask_id) # next_mask_id
         => next_mask_id <= MaxLedgerId
    /\ release_draw

NextLedger ==
    \/ \E f \in Files : ledger_open(f)
    \/ mousePressEvent_delete
    \/ \E pt \in Points : mousePressEvent_draw(pt)
    \/ \E pt \in Points : mouseMoveEvent(pt)
    \/ \E pos \in ClickPoints : ledger_release_delete(pos)
    \/ ledger_release_draw

SpecLedger == InitLedger /\ [][NextLedger]_vars

\* ------------------------------------------ an editing session with undo
\* One image of a directory without container files is opened; instances are
\* painted and erased and the edits undone, with several snapshots in the stack.
snapshot_release_delete(pos) ==
    /\ delete_hits(masks, pos) => Len(undo_stack) < MaxSnapshots
    /\ release_delete(pos)

snapshot_release_draw ==
    /\ paint_next_mask_id(current_polygon, masks, next_mask_id) # next_mask_id
         => (next_mask_id <= MaxSnapshotId /\ Len(undo_stack) < MaxSnapshots)
    /\ release_draw

snapshot_undo ==
    /\ image_path # None
    /\ undo

NextSnapshots ==
    \/ \E f \in Files : ledger_open(f)
    \/ mousePressEvent_delete
    \/ \E pt \in PaintPoints : mousePressEvent_draw(pt)
    \/ \E pt \in PaintPoints : mouseMoveEvent(pt)
    \/ \E pos \in ClickPoints : snapshot_release_delete(pos)
    \/ snapshot_release_draw
    \/ snapshot_undo

SpecSnapshots == InitLedger /\ [][NextSnapshots]_vars

\* ------------------------------------------------------ a paint-only session
\* The first image of a session in a directory without container files, and
\* then only gestures that draw a valid polygon (three points, a fill that is
\* not empty) over background pixels only.
valid_polygon(poly, r) ==
    /\ Len(poly) >= 3
    /\ fillPoly(poly, Shape(r)) # {}
    /\ \A p \in fillPoly(poly, Shape(r)) : At(r, p) = 0

paint_release ==
    /\ Len(undo_stack) < MaxPaints
    /\ valid_polygon(current_polygon, masks)
    /\ release_draw

NextPaint ==
    \/ \E f \in Files : ledger_open(f)
    \/ \E pt \in PaintPoints : mousePressEvent_draw(pt)
    \/ \E pt \in PaintPoints : mouseMoveEvent(pt)
    \/ paint_release

SpecPaint == InitLedger /\ [][NextPaint]_vars

\* ------------------------------------------------- loading and switching only
\* Sessions that open images and switch between them without editing, in a
\* directory holding container files of every kind.  A session is followed no
\* further once it has loaded a three-dimensional array.
InitLoad ==
    /\ image_path = None
    /\ masks = None
    /\ next_mask_id = 1
    /\ current_polygon = <<>>
    /\ is_drawing = FALSE
    /\ is_cmd_pressed = FALSE
    /\ undo_stack = <<>>
    /\ array_ids = <<0>>
    /\ tiff_files = <<>>
    /\ current_file_index = 0 - 1
    /\ disk \in [MaskPaths -> UNION {LoadContainers(path) : path \in MaskPaths}]
    /\ \A path \in MaskPaths : disk[path] \in LoadContainers(path)
    /\ last_event = [op |-> "init", pos |-> None]
    /\ last_save = "none"
    /\ prev_masks = None
    /\ migrator_idle

masks_is_2d == image_path # None => disk[_get_mask_path(image_path)].kind # "array3d"

load_open(f) ==
    /\ masks_is_2d
    /\ open_image_dialog(f)

load_drop(f) ==
    /\ masks_is_2d
    /\ dropEvent(f)

load_previous ==
    /\ masks_is_2d
    /\ load_previous_file

load_next ==
    /\ masks_is_2d
    /\ load_next_file

NextLoad ==
    \/ \E f \in Files : load_open(f)
    \/ \E f \in Files : load_drop(f)
    \/ load_previous
    \/ load_next

SpecLoad == InitLoad /\ [][NextLoad]_vars

\* ---------------------------------------- images that differ in the extension
\* A session in the second directory, which holds no container file at first.
NextPaths ==
    \/ \E f \in PathFiles : open_image_dialog(f)
    \/ \E f \in PathFiles : dropEvent(f)
    \/ load_previous_file
    \/ load_next_file
    \/ mousePressEvent_delete
    \/ \E pt \in Points : mousePressEvent_draw(pt)
    \/ \E pt \in Points : mouseMoveEvent(pt)
    \/ \E pos \in ClickPoints : mouseReleaseEvent_delete(pos)
    \/ mouseReleaseEvent_draw
    \/ undo

SpecPaths == InitLedger /\ [][NextPaths]_vars

\* ------------------------------------------------------ the converter script
\* The smallest instance ID whose product with 137 does not fit 16 bits.
BigId == 479

\* Container files the converter may find.
MigrateContainers(path) ==
    IF path[1] = "a"
    THEN {NoFile, CorruptFile, Array1D, DictNoMasks,
          SimpleArray(<< <<0, 1>> >>), SimpleArray(<< <<1, 1>> >>),
          SimpleArray(<< <<0, 0>> >>),
          PartialDict(<< <<0, 2>> >>), PartialDict(<< <<0, BigId>> >>),
          cellpose_data(<< <<0, 1>> >>), Array3D(<< <<0, 1>> >>)}
    ELSE IF path[1] = "b"
    THEN {NoFile, SimpleArray(<< <<1>>, <<0>> >>), PartialDict(<< <<1>>, <<0>> >>)}
    ELSE IF path[1] = "d_seg"
    THEN {NoFile, SimpleArray(<< <<1>>, <<0>> >>)}
    ELSE {NoFile}

\* main() is about to run on a directory; the segmentation tool is not open.
InitMigrate ==
    /\ image_path = None
    /\ masks = None
    /\ next_mask_id = 1
    /\ current_polygon = <<>>
    /\ is_drawing = FALSE
    /\ is_cmd_pressed = FALSE
    /\ undo_stack = <<>>
    /\ array_ids = <<0>>
    /\ tiff_files = <<>>
    /\ current_file_index = 0 - 1
    /\ disk \in [MaskPaths -> UNION {MigrateContainers(path) : path \in MaskPaths}]
    /\ \A path \in MaskPaths : disk[path] \in MigrateContainers(path)
    /\ last_event = [op |-> "init", pos |-> None]
    /\ last_save = "none"
    /\ prev_masks = None
    /\ dry_run \in BOOLEAN
    /\ backup \in BOOLEAN
    /\ images \in SUBSET (Files \cup SegFiles)
    /\ mask_files = <<>>
    /\ file_pos = 0
    /\ stats = no_stats
    /\ result = [status |-> "none", num_masks |-> 0]
    /\ backups = [path \in MaskPaths |-> NoFile]
    /\ pc = "start"

tool_vars == <<image_path, masks, next_mask_id, current_polygon, is_drawing,
               is_cmd_pressed, undo_stack, array_ids, tiff_files, current_file_index,
               last_event, last_save, prev_masks>>

\* main(), lines 227-244: list the container files.
main_find ==
    /\ pc = "start"
    /\ mask_files' = find_mask_files(disk)
    /\ pc' = IF Len(find_mask_files(disk)) = 0 THEN "done" ELSE "loop"
    /\ UNCHANGED <<tool_vars, disk, dry_run, backup, images, file_pos, stats,
                   result, backups>>

\* main(), lines 247-249: one turn of the loop, convert_file on the next file.
main_convert ==
    /\ pc = "loop"
    /\ file_pos < Len(mask_files)
    /\ LET path == mask_files[file_pos + 1]
           c == disk[path]
           tif == get_corresponding_tif(path, images)
       IN  /\ backups' = IF convert_backs_up(c, tif, dry_run, backup)
                         THEN [backups EXCEPT ![path] = c] ELSE backups
           /\ disk' = IF convert_writes(c, tif, dry_run)
                      THEN [disk EXCEPT ![path] = convert_to_cellpose_format(c)] ELSE disk
           /\ result' = [status |-> convert_status(c, tif, dry_run),
                         num_masks |-> convert_num_masks(c, tif, dry_run)]
           /\ stats' = count_status(stats, convert_status(c, tif, dry_run))
    /\ file_pos' = file_pos + 1
    /\ pc' = IF file_pos + 1 = Len(mask_files) THEN "done" ELSE "loop"
    /\ UNCHANGED <<tool_vars, dry_run, backup, images, mask_files>>

\* The script is started again on the same directory, with any flags.
main_again ==
    /\ pc = "done"
    /\ dry_run' \in BOOLEAN
    /\ backup' \in BOOLEAN
    /\ mask_files' = <<>>
    /\ file_pos' = 0
    /\ stats' = no_stats
    /\ result' = [status |-> "none", num_masks |-> 0]
    /\ pc' = "start"
    /\ UNCHANGED <<tool_vars, disk, images, backups>>

NextMigrate ==
    \/ main_find
    \/ main_convert
    \/ main_again

SpecMigrate == InitMigrate /\ [][NextMigrate]_vars

\* ------------------------------------------------------------------ claims
SwitchOps == {"open", "drop", "previous", "next"}

PaintOps == {"paint", "paint_empty"}

EraseOps == {"erase", "erase_miss"}

\* C1: for every committed mutation (a paint that adds an instance, an erase
\* that removes one), an undo invoked immediately afterwards restores the
\* raster to the content it had immediately before that mutation.
C1_UndoRestoresPreMutation ==
    [][(last_event.op \in {"paint", "erase"} /\ last_event'.op = "undo")
          => masks' = prev_masks]_vars

\* C2: after any switch to another image, by whichever path (open dialog,
\* previous, next, drag-and-drop), the undo stack is empty.
C2_SwitchClearsUndo ==
    [][(last_event'.op \in SwitchOps /\ image_path # None /\ image_path' # image_path)
          => undo_stack' = <<>>]_vars

\* C3: after every image load, next_mask_id is max(IDs in the loaded raster) + 1,
\* or 1 when the loaded raster has no instance.
C3_NextIdAfterLoad ==
    last_event.op \in SwitchOps
        => next_mask_id = (IF max(masks) > 0 THEN max(masks) + 1 ELSE 1)

\* C4: a successful paint assigns an ID that no pixel of the raster carried
\* before the paint.
C4_PaintIdIsFresh ==
    [][last_event'.op = "paint" => next_mask_id \notin unique(masks)]_vars

\* C5: a paint never changes a pixel that was nonzero before it; a pixel changes
\* only if it was background and lies in the filled polygon, and it then carries
\* the new ID.
C5_PaintKeepsLabeledPixels ==
    [][last_event'.op \in PaintOps =>
          /\ Shape(masks') = Shape(masks)
          /\ \A p \in Pixels(masks) :
                /\ At(masks, p) # 0 => At(masks', p) = At(masks, p)
                /\ At(masks', p) # At(masks, p) =>
                      /\ At(masks, p) = 0
                      /\ p \in fillPoly(current_polygon, Shape(masks))
                      /\ At(masks', p) = next_mask_id]_vars

\* C5 witness: a paint succeeded on a raster that already held an instance.
C5_Witness ==
    /\ last_event.op = "paint"
    /\ max(prev_masks) > 0
    /\ masks # prev_masks

\* C6: a paint whose filled polygon covers only pixels that are already labeled
\* leaves the raster and next_mask_id unchanged and pushes no undo entry.
C6_CoveredPaintIsNoOp ==
    [][(/\ last_event'.op \in PaintOps
        /\ \A p \in fillPoly(current_polygon, Shape(masks)) : At(masks, p) # 0)
          => /\ masks' = masks
             /\ next_mask_id' = next_mask_id
             /\ undo_stack' = undo_stack]_vars

\* C6 witness: a polygon drawn inside existing instances produced nothing.
C6_Witness ==
    /\ last_event.op = "paint_empty"
    /\ max(masks) > 0
    /\ masks = prev_masks

\* C7: a paint that produces the empty result performs no save: the container
\* files are left as they were.
C7_EmptyPaintDoesNotSave ==
    [][last_event'.op = "paint_empty" => disk' = disk]_vars

\* C8: erasing at a pixel that carries ID k > 0 zeroes exactly the pixels that
\* carried k; erasing at a background pixel or outside the raster changes
\* neither the raster, nor the undo stack, nor the container files.
C8_EraseExactlyOneInstance ==
    [][last_event'.op \in EraseOps =>
          IF last_event'.pos \in Pixels(masks) /\ At(masks, last_event'.pos) > 0
          THEN /\ Shape(masks') = Shape(masks)
               /\ \A p \in Pixels(masks) :
                     At(masks', p) = IF At(masks, p) = At(masks, last_event'.pos)
                                     THEN 0 ELSE At(masks, p)
          ELSE /\ masks' = masks
               /\ undo_stack' = undo_stack
               /\ disk' = disk]_vars

\* C8 witness: an erase removed one instance and another instance remains.
C8_Witness ==
    /\ last_event.op = "erase"
    /\ max(masks) > 0
    /\ max(prev_masks) > 0
    /\ masks # prev_masks

\* C9: after a save, the image has no container file if and only if the raster
\* holds no nonzero ID; otherwise the file is the complete container of the raster.
C9_SaveKeepsFileIffInstances ==
    (last_event.op \in PaintOps \cup {"erase", "undo"} /\ last_save # "none")
        => /\ (disk[_get_mask_path(image_path)] = NoFile) <=> (max(masks) <= 0)
           /\ max(masks) > 0 => disk[_get_mask_path(image_path)] = cellpose_data(masks)

\* C10: saving a raster of the open image and loading the image again gives
\* the same raster (here for every raster whose IDs fit 16 bits).
C10_SaveLoadRoundTrip ==
    (/\ image_path # None
     /\ Shape(masks) = ImageShape(image_path)
     /\ \A v \in unique(masks) : 0 <= v /\ v < UINT16_RANGE)
        => load_masks(save_masks(disk, image_path, masks), image_path) = masks

\* C11: after every committed mutation (a paint that added an instance, an
\* erase that removed one, an undo that popped a snapshot) the container file of
\* the open image exists exactly when the raster holds an instance, and the
\* masks it stores are the raster.
C11_MutationKeepsFileInSync ==
    last_event.op \in {"paint", "erase", "undo"}
        => LET c == disk[_get_mask_path(image_path)]
           IN  /\ exists(disk, _get_mask_path(image_path)) <=> (max(masks) > 0)
               /\ exists(disk, _get_mask_path(image_path)) => c.masks = masks

\* C13: undo with an empty undo stack changes neither the raster, nor
\* next_mask_id, nor the stack, nor any container file, and runs no save.
C13_EmptyUndoIsNoOp ==
    [][last_event'.op = "undo_empty"
          => /\ masks' = masks
             /\ next_mask_id' = next_mask_id
             /\ undo_stack' = undo_stack
             /\ disk' = disk
             /\ last_save' = "none"]_vars

\* C13 witness: undo found the stack empty while a save of the open raster
\* would have rewritten its container file.
C13_Witness ==
    /\ last_event.op = "undo_empty"
    /\ image_path # None
    /\ save_masks(disk, image_path, masks) # disk

\* The last n entries of a sequence (the whole sequence if it is shorter).
LastN(seq, n) == IF Len(seq) <= n THEN seq ELSE SubSeq(seq, Len(seq) - n + 1, Len(seq))

\* C12: the undo stack never holds more than 50 snapshots, and a push (by a
\* paint that added an instance: the raster after it; by an erase that removed
\* one: the raster before it) leaves the 50 most recent snapshots, in push order.
C12_LedgerKeepsLast50 ==
    [][/\ Len(undo_stack') <= 50
       /\ last_event'.op = "paint"
             => undo_stack' = LastN(Append(undo_stack, masks'), 50)
       /\ last_event'.op = "erase"
             => undo_stack' = LastN(Append(undo_stack, masks), 50)]_vars

\* C12 witness: 52 snapshots were pushed; the stack holds 50 and the two oldest
\* (both of instance 1) are gone.
C12_Witness ==
    /\ Len(undo_stack) = 50
    /\ last_event.op = "erase"
    /\ max(undo_stack[1]) = 2
    /\ max(undo_stack[50]) = 26

\* C14: after N valid polygons that do not overlap were painted, one after the
\* other, on the all-background raster of a newly loaded image (N is the depth
\* of the undo stack: opening the image emptied it and every paint pushed once),
\* the mask count is N and the IDs in the raster are exactly 1..N.
C14_PaintedIdsAreOneToN ==
    image_path # None
        => /\ mask_count(masks) = Len(undo_stack)
           /\ unique(masks) \ {0} = 1..Len(undo_stack)

\* A container that load_image must not use for image f: unreadable, not one of
\* the recognized shapes (a bare 2-D array, a dictionary with masks), or holding
\* a raster that has not the size of the image.
Unusable(c, f) ==
    \/ c.kind = "corrupt"
    \/ c.kind \in {"array1d", "array3d"}
    \/ c.kind = "dict" /\ "masks" \notin c.keys
    \/ c.kind = "array" /\ Shape(c.masks) # ImageShape(f)
    \/ c.kind = "dict" /\ "masks" \in c.keys /\ Shape(c.masks) # ImageShape(f)

\* C15: when the container file of the image being loaded exists but is
\* unreadable, of no recognized shape, or holds a raster of another size than
\* the image, the load completes and the active raster is all-background.
C15_UnusableContainerLoadsBlank ==
    [][(/\ last_event'.op \in SwitchOps
        /\ Unusable(disk'[_get_mask_path(image_path')], image_path'))
          => masks' = Zeros(ImageShape(image_path'))]_vars

\* A container of the simple or the partial shape.
Legacy(c) == c.kind = "array" \/ (c.kind = "dict" /\ "masks" \in c.keys /\ c.keys # CompleteKeys)

\* C16: when the raster of the open image was loaded from a simple-array or
\* partial-dictionary container and holds an instance, the save run by the
\* next image switch leaves a complete container for it; and whatever a save
\* writes is a complete container.
C16_SaveUpgradesLegacy ==
    [][last_event'.op \in SwitchOps
          => /\ (/\ image_path # None
                 /\ Legacy(disk[_get_mask_path(image_path)])
                 /\ masks = disk[_get_mask_path(image_path)].masks
                 /\ max(masks) > 0)
                   => disk'[_get_mask_path(image_path)].keys = CompleteKeys
             /\ \A path \in MaskPaths :
                   (disk'[path] # disk[path] /\ exists(disk', path))
                       => disk'[path].keys = CompleteKeys]_vars

\* C17: the container path depends on the image path only, and two distinct
\* image files the tool navigates between have distinct container paths: a
\* switch from one image to another never loads from the container path the
\* outgoing raster was saved to.
C17_OneContainerPerImage ==
    [][(/\ last_event'.op \in SwitchOps
        /\ image_path # None
        /\ image_path' # image_path)
          => _get_mask_path(image_path') # _get_mask_path(image_path)]_vars

\* C18: in every complete container on disk (all of them written by save),
\* colors holds one RGB triple per nonzero ID of the stored raster, in ascending
\* ID order, each derived from the hue (k * 137) mod 180 at full saturation and
\* value; and the overlay shows every pixel of instance k in that same colour.
C18_ColorsMatchDisplay ==
    /\ \A path \in MaskPaths :
          disk[path].keys = CompleteKeys
              => LET ids == {v \in unique(disk[path].masks) : v # 0}
                 IN  /\ Len(disk[path].colors) = Cardinality(ids)
                     /\ \A i \in 1..Cardinality(ids) :
                           disk[path].colors[i] = hsv_to_rgb((ith(ids, i) * 137) % 180)
    /\ image_path # None
          => \A p \in Pixels(masks) :
                At(masks, p) > 0
                    => _create_mask_overlay(masks)[p]
                         = hsv_to_rgb((At(masks, p) * 137) % 180) \o <<255>>

\* C18 witness: the container of the open image was just saved from a raster
\* with two instances, stored in the raster in descending order of ID.
C18_Witness ==
    /\ image_path # None
    /\ last_save = "saved"
    /\ last_event.op = "paint"
    /\ disk[_get_mask_path(image_path)] = cellpose_data(masks)
    /\ Len(disk[_get_mask_path(image_path)].colors) = 2
    /\ masks = << <<2, 1>> >>

\* C19: on every switch away from an open image, only the container of the
\* outgoing image is written, it then holds the outgoing raster (when that has
\* an instance), and the incoming raster is loaded from the files as the save
\* left them.
C19_SwitchSavesThenLoads ==
    [][(last_event'.op \in SwitchOps /\ image_path # None)
          => /\ \A path \in MaskPaths \ {_get_mask_path(image_path)} :
                   disk'[path] = disk[path]
             /\ max(masks) > 0
                   => /\ exists(disk', _get_mask_path(image_path))
                      /\ disk'[_get_mask_path(image_path)].masks = masks
             /\ masks' = load_masks(disk', image_path')]_vars

\* C20: convert_file creates, changes and deletes no file when it returns
\* no_tif, already_cellpose, unknown_format or error, nor in a dry run; and a
\* dry run reports the status and the mask count the real run would report.
C20_NoWriteOutcomes ==
    [][file_pos' = file_pos + 1
          => LET path == mask_files[file_pos + 1]
                 tif == get_corresponding_tif(path, images)
             IN  /\ (dry_run \/ result'.status \in {"no_tif", "already_cellpose",
                                                   "unknown_format", "error"})
                       => (disk' = disk /\ backups' = backups)
                 /\ dry_run
                       => result' = [status |-> convert_status(disk[path], tif, FALSE),
                                    num_masks |-> convert_num_masks(disk[path], tif, FALSE)]]_vars

\* C25: a successful paint assigns the ID max(IDs in the raster) + 1, and 1
\* when the raster is all-background, also after erases.
C25_PaintAssignsMaxPlusOne ==
    [][last_event'.op = "paint"
          => LET assigned == unique(masks') \ unique(masks)
             IN  assigned = {IF max(masks) > 0 THEN max(masks) + 1 ELSE 1}]_vars

\* C26: whenever an image is loaded, the raster has the height and the width
\* of that image.
C26_RasterHasImageShape ==
    image_path # None => Shape(masks) = ImageShape(image_path)

\* C30: a drawing gesture released with fewer than three points creates no
\* instance, consumes no ID, pushes no undo entry, runs no save, and the
\* polygon in progress is discarded.
C30_ShortGestureRejected ==
    [][last_event'.op = "too_few_points"
          => /\ masks' = masks
             /\ next_mask_id' = next_mask_id
             /\ undo_stack' = undo_stack
             /\ disk' = disk
             /\ last_save' = "none"
             /\ current_polygon' = <<>>
             /\ is_drawing' = FALSE]_vars

\* C30 witness: a gesture of fewer than three points was released while a save
\* of the open raster would have rewritten its container file.
C30_Witness ==
    /\ last_event.op = "too_few_points"
    /\ prev_masks = masks
    /\ current_polygon = <<>>
    /\ save_masks(disk, image_path, masks) # disk

\* C21: when convert_file converts a file with --backup, the .backup copy holds
\* the content the file had before it was overwritten and the file then holds
\* the complete dictionary, no other file is touched in between; without
\* --backup no backup file is created.
C21_BackupBeforeOverwrite ==
    [][file_pos' = file_pos + 1
          => LET path == mask_files[file_pos + 1]
             IN  /\ (result'.status = "converted" /\ ~dry_run /\ backup)
                       => /\ backups'[path] = disk[path]
                          /\ is_cellpose_format(disk'[path])
                          /\ \A other \in MaskPaths \ {path} :
                                 backups'[other] = backups[other] /\ disk'[other] = disk[other]
                 /\ ~backup => backups' = backups]_vars

\* C21 witness: a file was converted with --backup; its backup is the legacy
\* container and the file is the complete dictionary.
C21_Witness ==
    /\ file_pos > 0
    /\ result.status = "converted"
    /\ backup /\ ~dry_run
    /\ backups[mask_files[file_pos]].kind = "array"
    /\ is_cellpose_format(disk[mask_files[file_pos]])

\* C22: every container file found is classified exactly once: the counters
\* sum to the number of files processed, the loop goes on until every file
\* found was processed, and a file that cannot be decoded yields "error".
C22_EveryFileClassifiedOnce ==
    /\ stats.converted + stats.already_cellpose + stats.no_tif
          + stats.unknown_format + stats.error = file_pos
    /\ pc # "start" => mask_files = find_mask_files(disk)
    /\ pc = "loop" => file_pos < Len(mask_files)
    /\ pc = "done" => file_pos = Len(mask_files)
    /\ (file_pos > 0 /\ disk[mask_files[file_pos]].kind = "corrupt")
          => result.status = "error"

\* C22 witness: the run ended, its first file could not be decoded and a later
\* file was converted.
C22_Witness ==
    /\ pc = "done"
    /\ file_pos >= 2
    /\ disk[mask_files[1]].kind = "corrupt"
    /\ stats.error = 1
    /\ stats.converted >= 1
    /\ result.status = "converted"

\* C23: when convert_file returns "converted", the number of masks it reports
\* is the number of distinct nonzero IDs of the container's raster.
C23_ConvertedCountsNonzeroIds ==
    [][(file_pos' = file_pos + 1 /\ result'.status = "converted")
          => result'.num_masks
                = Cardinality(unique_ids(disk[mask_files[file_pos + 1]].masks))]_vars

\* C24: convert_file on a complete dictionary returns "already_cellpose" and
\* changes no file; and the file a conversion wrote is a complete dictionary,
\* on which convert_file returns "already_cellpose" and writes nothing.
C24_MigrationIsIdempotent ==
    [][file_pos' = file_pos + 1
          => LET path == mask_files[file_pos + 1]
                 tif == get_corresponding_tif(path, images)
             IN  /\ is_cellpose_format(disk[path])
                       => /\ result'.status = "already_cellpose"
                          /\ disk' = disk
                          /\ backups' = backups
                 /\ (result'.status = "converted" /\ ~dry_run)
                       => /\ is_cellpose_format(disk'[path])
                          /\ convert_status(disk'[path], tif, FALSE) = "already_cellpose"
                          /\ ~convert_writes(disk'[path], tif, FALSE)
                          /\ ~convert_backs_up(disk'[path], tif, FALSE, TRUE)]_vars

\* C24 witness: a later run of the script found "already_cellpose" for a file
\* that an earlier run had converted (its backup is the legacy container).
C24_Witness ==
    /\ file_pos > 0
    /\ result.status = "already_cellpose"
    /\ backups[mask_files[file_pos]].kind \in {"array", "dict"}
    /\ ~is_cellpose_format(backups[mask_files[file_pos]])
    /\ is_cellpose_format(disk[mask_files[file_pos]])

\* C27: in every container the converter writes, colors has one entry per
\* distinct nonzero ID of masks, also when masks is all-background.
C27_ConverterColorsPerId ==
    [][(file_pos' = file_pos + 1 /\ result'.status = "converted" /\ ~dry_run)
          => LET written == disk'[mask_files[file_pos + 1]]
             IN  Len(written.colors) = Cardinality(unique_ids(written.masks))]_vars

\* C28: for the container of an existing image p (path from _get_mask_path),
\* get_corresponding_tif finds an image with the stem of p: convert_file does
\* not return "no_tif" and does not pick an image of another name.
C28_LookupInvertsMaskPath ==
    [][file_pos' = file_pos + 1
          => LET path == mask_files[file_pos + 1]
                 tif == get_corresponding_tif(path, images)
             IN  \A p \in images :
                    _get_mask_path(p) = path
                       => /\ result'.status # "no_tif"
                          /\ tif # None
                          /\ tif[1] = p[1]]_vars

\* C29: for a uint16 masks raster the converter writes, for every ID, the
\* colour of the hue (ID * 137) mod 180 with the product not wrapped, which is
\* the colour the segmentation tool displays and saves for that ID.
C29_ConverterHueDoesNotWrap ==
    [][(file_pos' = file_pos + 1 /\ result'.status = "converted" /\ ~dry_run
          /\ masks_dtype(disk[mask_files[file_pos + 1]]) = "uint16")
          => LET written == disk'[mask_files[file_pos + 1]]
             IN  /\ written.colors = _generate_colors(written.masks)
                 /\ \A i \in 1..Len(written.colors) :
                        written.colors[i]
                           = hsv_to_rgb((ith(unique_ids(written.masks), i) * 137) % 180)]_vars

\* C32: an image is loaded and the next handler switches to another image (no
\* paint, erase or undo in between): the container file the image had is still
\* there after the switch and holds the same label raster.
C32_SwitchKeepsContainer ==
    [][(/\ last_event.op \in SwitchOps
        /\ last_event'.op \in SwitchOps
        /\ image_path # None
        /\ exists(disk, _get_mask_path(image_path)))
          => /\ exists(disk', _get_mask_path(image_path))
             /\ loaded_masks(disk'[_get_mask_path(image_path)])
                   = loaded_masks(disk[_get_mask_path(image_path)])]_vars

\* C31: every snapshot in the undo stack is an array of its own (it is neither
\* the array of the live raster nor the array of another snapshot), and a paint
\* or an erase, also one on a raster that undo installed, changes the content
\* of no snapshot that stays in the stack.
C31_SnapshotsAreIndependent ==
    [][/\ \A i, j \in 1..Len(array_ids') : i # j => array_ids'[i] # array_ids'[j]
       /\ last_event'.op \in {"paint", "erase"}
             => LET dropped == Len(undo_stack) + 1 - Len(undo_stack')
                IN  /\ dropped \in {0, 1}
                    /\ \A i \in (dropped + 1)..Len(undo_stack) :
                           undo_stack'[i - dropped] = undo_stack[i]
                    /\ undo_stack'[Len(undo_stack')]
                          = IF last_event'.op = "erase" THEN masks ELSE masks']_vars

\* C31 witness: an erase has just changed the live raster while two snapshots
\* were in the stack, the older one unlike the live raster; and the live array
\* is one that undo installed: without an undo every paint adds a snapshot and
\* an instance and every erase adds a snapshot and removes an instance, so
\* snapshots plus instances would be twice the number of paints.
C31_Witness ==
    /\ last_event.op = "erase"
    /\ Len(undo_stack) = 2
    /\ undo_stack[1] # masks
    /\ undo_stack[2] # masks
    /\ Len(undo_stack) + Cardinality(unique_ids(masks)) # 2 * (next_mask_id - 1)

=============================================================================
